---- MODULE Spec2Model ----
(***************************************************************************)
(* Model of lego_inventory.py: the bearer-token identity resolver          *)
(* (get_current_user, _verify_with_supabase_auth_server) and the four      *)
(* endpoints over the lego_sets table (list_sets, add_set, remove_set,     *)
(* delete_all_sets).                                                       *)
(*                                                                         *)
(* Every request owns one Session(engine).  A handler is a sequence of     *)
(* database statements: the statement step and the COMMIT step are         *)
(* separate actions, so that requests of different clients interleave.     *)
(* The table is the committed content of lego_sets; a row inserted or      *)
(* deleted by a transaction that has not committed is held in pending /    *)
(* locked and is invisible to the other sessions.  A statement that needs  *)
(* a row or a unique-index entry held by another open transaction waits    *)
(* for that transaction (its action is disabled until then).               *)
(***************************************************************************)
EXTENDS Integers, Sequences, FiniteSets, TLC

\* ------------------------------------------------------------------ bounds
NumReq == 2      \* request slots: requests that can be in flight together
MaxKey == 2      \* set_number ranges over 1..MaxKey
MaxId  == 3      \* rows inserted in one behaviour (values of the id column)

Slots == 1..NumReq
Keys  == 1..MaxKey
Names == {"First", "Duplicate"}

\* ------------------------------------------------------------- identities
\* uuid.UUID values of the accounts.
UUIDs == {"ua", "ub"}

\* payload.get(...) of a claim or field that is not there.
MISSING == "<missing>"

\* The string taken as the user id, unparsed.
Unparsed(s) == {s}

\* uuid.UUID(s): several spellings of one UUID parse to the same value, any
\* other string raises ValueError (the empty set here).
ParseUUID(s) ==
    CASE s = "ua"   -> {"ua"}
      [] s = "{UA}" -> {"ua"}
      [] s = "ub"   -> {"ub"}
      [] OTHER      -> {}

\* Values of the "sub" claim / of the provider's "id" field.
SubClaims == {MISSING, "", "not-a-uuid", "ua", "{UA}"}

\* `if not user_id`: None and "" are falsy.
Falsy(s) == s = MISSING \/ s = ""

\* Bearer credentials.  form:
\*   none       no Authorization header
\*   garbled    not a JWT at all
\*   expired    signed with the project's secret, exp in the past
\*   wrongkey   signed with a key neither this service nor the provider knows
\*   hs256      signed with SUPABASE_JWT_SECRET, aud "authenticated", current
\*   signingkey signed with the provider's asymmetric signing key, current
Tokens ==
    {[form |-> "none", sub |-> MISSING], [form |-> "garbled", sub |-> MISSING],
     [form |-> "expired", sub |-> "ua"], [form |-> "wrongkey", sub |-> "ua"]}
    \cup {[form |-> "hs256", sub |-> s] : s \in SubClaims}
    \cup {[form |-> "signingkey", sub |-> "ua"]}

BadForms == {"none", "garbled", "expired", "wrongkey"}

\* What GET {SUPABASE_URL}/auth/v1/user can do for a token: the provider
\* answers a credential it does not accept with 401 or 403, or is not
\* reachable, or fails; for a credential it accepts it may also answer 200
\* with a user record, whose id is the token's subject (or, malformed, is
\* missing or no UUID).
NoResponse == [kind |-> "unused", code |-> 0, id |-> MISSING]
ProviderFailures ==
    {[kind |-> "url_error", code |-> 0, id |-> MISSING],
     [kind |-> "bad_json", code |-> 200, id |-> MISSING]}
    \cup {[kind |-> "http_error", code |-> c, id |-> MISSING] : c \in {401, 403, 500}}
ProviderResponses(token) ==
    IF token.form \in BadForms
    THEN ProviderFailures
    ELSE ProviderFailures
         \cup {[kind |-> "ok", code |-> 200, id |-> i] :
                 i \in {token.sub, MISSING, "not-a-uuid"}}

\* HTTPBearer() answers a request without credentials itself; the status is
\* 403 or 401 depending on the FastAPI release.
NotAuthenticatedStatus == {401, 403}

VARIABLES
    jwtSecret,      \* SUPABASE_JWT_SECRET is set
    authServer,     \* SUPABASE_URL and SUPABASE_ANON_KEY are both set
    foreignKey,     \* the database constrains lego_sets.user_id to auth.users
    table,          \* committed rows of lego_sets
    nextId,         \* next value of the id column
    pc,             \* per slot: idle, session, flushed, executed, done
    req,            \* per slot: the request being served
    pending,        \* per slot: rows INSERTed, not yet committed
    locked,         \* per slot: rows DELETEd, not yet committed
    resp,           \* per slot: the response sent
    before          \* history: the table when the latest request arrived

vars == <<jwtSecret, authServer, foreignKey, table, nextId, pc, req, pending, locked, resp, before>>

\* ------------------------------------------------------------------- auth
Ok(u) == [ok |-> TRUE, user |-> u, status |-> 200, detail |-> "", fallback |-> FALSE]
Err(s, d) == [ok |-> FALSE, user |-> MISSING, status |-> s, detail |-> d, fallback |-> FALSE]

\* _verify_with_supabase_auth_server(token), the provider answering prov.
VerifyWithSupabaseAuthServer(prov) ==
    IF ~authServer
    THEN Err(500, "Missing SUPABASE_URL or SUPABASE_ANON_KEY for token verification")
    ELSE CASE prov.kind = "http_error" ->
                IF prov.code \in {401, 403}
                THEN Err(401, "Invalid or expired token")
                ELSE Err(503, "Auth verification service unavailable")
           [] prov.kind \in {"url_error", "bad_json"} ->
                Err(503, "Failed to verify token")
           [] OTHER ->
                IF Falsy(prov.id)
                THEN Err(401, "Invalid token: no user ID")
                ELSE IF ParseUUID(prov.id) = {}
                     THEN Err(503, "Failed to verify token")
                     ELSE Ok(CHOOSE u \in ParseUUID(prov.id) : TRUE)

\* A decode that does not look at exp.
JwtDecodesExpired(token) == token.form \in {"hs256", "expired"}

\* jwt.decode(token, SUPABASE_JWT_SECRET, algorithms=["HS256"],
\* audience="authenticated") returns the payload only for a current token
\* signed with the secret; everything else raises JWTError.
JwtDecodes(token) == token.form = "hs256"

\* A fast path whose except clause also swallows the HTTPException raised
\* for a missing subject.
LocalPathBroadExcept(token) ==
    /\ jwtSecret
    /\ JwtDecodes(token)
    /\ ParseUUID(token.sub) # {}

\* The local fast path ends the resolution (TRUE) or falls through to the
\* auth server (FALSE).
LocalPathDecides(token) ==
    /\ jwtSecret
    /\ JwtDecodes(token)
    /\ (Falsy(token.sub) \/ ParseUUID(token.sub) # {})

\* get_current_user, behind HTTPBearer.
GetCurrentUser(token, prov, bearer) ==
    IF token.form = "none"
    THEN Err(bearer, "Not authenticated")
    ELSE IF LocalPathDecides(token)
         THEN IF Falsy(token.sub)
              THEN Err(401, "Invalid token: no user ID")
              ELSE Ok(CHOOSE u \in ParseUUID(token.sub) : TRUE)
         ELSE [VerifyWithSupabaseAuthServer(prov) EXCEPT !.fallback = TRUE]

\* ------------------------------------------------------------------ store
Row(i, u, k, n) == [id |-> i, user_id |-> u, set_number |-> k, name |-> n]

\* A DELETE / SELECT that forgets the owner.
RowsOfAnyone(t, u) == t
MatchingAnyOwner(t, u, k) == {r \in t : r.set_number = k}

\* WHERE user_id = u
RowsOf(t, u) == {r \in t : r.user_id = u}
\* WHERE set_number = k AND user_id = u
Matching(t, u, k) == {r \in t : r.user_id = u /\ r.set_number = k}

\* lego_sets without the unique constraint: nothing collides.
NoUniqueConstraint(t, u, k) == {}

\* A unique constraint on set_number alone.
UniqueOnSetNumber(t, u, k) == {r \in t : r.set_number = k}

\* UniqueConstraint("user_id", "set_number"): the index entries a new row
\* (u, k) collides with.
UniqueConflict(t, u, k) == {r \in t : r.user_id = u /\ r.set_number = k}

\* A SELECT without ORDER BY: the rows in the order they were inserted.
RECURSIVE OrderById(_)
OrderById(rows) ==
    IF rows = {} THEN <<>>
    ELSE LET first == CHOOSE r \in rows : \A q \in rows : r.id <= q.id
         IN <<first>> \o OrderById(rows \ {first})

\* ORDER BY set_number: the rows as a sequence, smallest set_number first
\* (rows of equal set_number in the order the database happens to give).
RECURSIVE OrderBySetNumber(_)
OrderBySetNumber(rows) ==
    IF rows = {} THEN <<>>
    ELSE LET first == CHOOSE r \in rows :
                          \A q \in rows : r.set_number <= q.set_number
         IN <<first>> \o OrderBySetNumber(rows \ {first})

\* [{"set_number": r.set_number, "name": r.name} for r in rows]
Project(rows) ==
    [i \in 1..Len(rows) |-> [set_number |-> rows[i].set_number, name |-> rows[i].name]]

\* The body of GET /sets for user u over the committed table t.
ListRows(t, u) == Project(OrderBySetNumber(RowsOf(t, u)))

NoArgs == [set_number |-> 0, set_name |-> ""]
Idle == [op |-> "none", token |-> [form |-> "none", sub |-> MISSING],
         fallback |-> FALSE, prov |-> NoResponse, user_id |-> MISSING, args |-> NoArgs]
NoResp == [status |-> 0, message |-> "", set_number |-> 0, sets |-> <<>>]
Reply(s, m, k, l) == [status |-> s, message |-> m, set_number |-> k, sets |-> l]

Ops == {"list_sets", "add_set", "remove_set", "delete_all_sets"}
\* The query parameters of an operation.
ArgsOf(op) ==
    CASE op = "add_set"    -> {[set_number |-> k, set_name |-> n] : k \in Keys, n \in Names}
      [] op = "remove_set" -> {[set_number |-> k, set_name |-> ""] : k \in Keys}
      [] OTHER             -> {NoArgs}

\* The state of a freshly started service with an empty table, under the
\* configuration (secret, server).
Start(secret, server) ==
    /\ jwtSecret = secret
    /\ authServer = server
    /\ table = {}
    /\ nextId = 1
    /\ pc = [r \in Slots |-> "idle"]
    /\ req = [r \in Slots |-> Idle]
    /\ pending = [r \in Slots |-> {}]
    /\ locked = [r \in Slots |-> {}]
    /\ resp = [r \in Slots |-> NoResp]
    /\ before = {}

\* The configuration of tests/conftest.py: SUPABASE_JWT_SECRET set,
\* SUPABASE_URL and SUPABASE_ANON_KEY empty, the table created from the
\* LegoSet declaration (no foreign key).
Init == Start(TRUE, FALSE) /\ foreignKey = FALSE

\* Every configuration of the environment.
InitAuth ==
    /\ \E secret \in BOOLEAN, server \in BOOLEAN : Start(secret, server)
    /\ foreignKey = FALSE

\* A request arrives on slot r: the dependency get_current_user runs first;
\* the handler body (and its Session) only with a resolved user id.
Request(r, op, token, prov, bearer, args) ==
    /\ pc[r] \in {"idle", "done"}
    /\ LET res == GetCurrentUser(token, prov, bearer) IN
       /\ req' = [req EXCEPT ![r] =
                     [op |-> op, token |-> token,
                      fallback |-> res.fallback,
                      prov |-> IF res.fallback /\ authServer THEN prov ELSE NoResponse,
                      user_id |-> res.user,
                      args |-> IF res.ok THEN args ELSE NoArgs]]
       /\ pc' = [pc EXCEPT ![r] = IF res.ok THEN "session" ELSE "done"]
       /\ resp' = [resp EXCEPT ![r] =
                      IF res.ok THEN NoResp ELSE Reply(res.status, res.detail, 0, <<>>)]
    /\ UNCHANGED <<jwtSecret, authServer, foreignKey, table, nextId, pending, locked>>

\* list_sets: one SELECT over the committed rows.
ListSets(r) ==
    /\ pc[r] = "session"
    /\ req[r].op = "list_sets"
    /\ resp' = [resp EXCEPT ![r] = Reply(200, "Retrieved", 0, ListRows(table, req[r].user_id))]
    /\ pc' = [pc EXCEPT ![r] = "done"]
    /\ UNCHANGED <<jwtSecret, authServer, foreignKey, table, nextId, req, pending, locked, before>>

\* The accounts of auth.users: "ub" has none, its tokens are minted with the
\* secret.
AuthUsers == {"ua"}

\* The foreign key of the deployed database, lego_sets.user_id ->
\* auth.users: a row of a user without account violates it.
ForeignKeyViolated(u) == foreignKey /\ u \notin AuthUsers

\* A store that lets a statement run past the uncommitted rows of others.
HeldByNobody(r) == {}

\* Rows other open transactions hold: inserted or deleted, not committed.
HeldByOthers(r) == UNION {pending[q] \cup locked[q] : q \in Slots \ {r}}

\* An INSERT ... ON CONFLICT DO NOTHING: the duplicate is silently ignored.
AddFlushIgnore(r) ==
    /\ pc[r] = "session"
    /\ req[r].op = "add_set"
    /\ LET u == req[r].user_id
           k == req[r].args.set_number
       IN
       /\ UniqueConflict(HeldByOthers(r), u, k) = {}
       /\ pending' = [pending EXCEPT ![r] =
                         IF UniqueConflict(table, u, k) # {} THEN {}
                         ELSE {Row(nextId, u, k, req[r].args.set_name)}]
       /\ nextId' = IF UniqueConflict(table, u, k) # {} THEN nextId ELSE nextId + 1
       /\ pc' = [pc EXCEPT ![r] = "flushed"]
    /\ UNCHANGED <<jwtSecret, authServer, foreignKey, table, req, locked, resp, before>>

\* add_set, session.add + the flush of session.commit(): the INSERT.  It
\* waits while another open transaction holds the index entry (u, k); a
\* committed entry raises IntegrityError, and so does a violated foreign
\* key: `except IntegrityError` rolls back and answers 409 for both.
AddFlush(r) ==
    /\ pc[r] = "session"
    /\ req[r].op = "add_set"
    /\ LET u == req[r].user_id
           k == req[r].args.set_number
       IN
       /\ UniqueConflict(HeldByOthers(r), u, k) = {}
       /\ IF UniqueConflict(table, u, k) # {} \/ ForeignKeyViolated(u)
          THEN /\ pc' = [pc EXCEPT ![r] = "done"]
               /\ resp' = [resp EXCEPT ![r] =
                              Reply(409, "Lego set already exists in collection.", 0, <<>>)]
               /\ UNCHANGED <<pending, nextId>>
          ELSE /\ pending' = [pending EXCEPT ![r] = {Row(nextId, u, k, req[r].args.set_name)}]
               /\ nextId' = nextId + 1
               /\ pc' = [pc EXCEPT ![r] = "flushed"]
               /\ UNCHANGED resp
    /\ UNCHANGED <<jwtSecret, authServer, foreignKey, table, req, locked, before>>

\* add_set, the COMMIT of session.commit() and the return.
AddCommit(r) ==
    /\ pc[r] = "flushed"
    /\ req[r].op = "add_set"
    /\ table' = table \cup pending[r]
    /\ pending' = [pending EXCEPT ![r] = {}]
    /\ resp' = [resp EXCEPT ![r] = Reply(200, "Added", req[r].args.set_number, <<>>)]
    /\ pc' = [pc EXCEPT ![r] = "done"]
    /\ UNCHANGED <<jwtSecret, authServer, foreignKey, nextId, req, locked, before>>

\* remove_set, the DELETE ... RETURNING set_number: it waits while another
\* open transaction holds a row it matches; the rows it deletes stay locked
\* until the commit.
RemoveExecute(r) ==
    /\ pc[r] = "session"
    /\ req[r].op = "remove_set"
    /\ LET hit == Matching(table, req[r].user_id, req[r].args.set_number) IN
       /\ hit \cap HeldByOthers(r) = {}
       /\ locked' = [locked EXCEPT ![r] = hit]
    /\ pc' = [pc EXCEPT ![r] = "executed"]
    /\ UNCHANGED <<jwtSecret, authServer, foreignKey, table, nextId, req, pending, resp, before>>

\* A delete that does not look at what it removed.
AlwaysOne(rows) == {0}

\* result.scalar_one_or_none() over the returned rows.
ScalarOneOrNone(rows) == {x.set_number : x \in rows}

\* remove_set, session.commit() and the answer: 404 when the DELETE returned
\* no row.
RemoveCommit(r) ==
    /\ pc[r] = "executed"
    /\ req[r].op = "remove_set"
    /\ table' = table \ locked[r]
    /\ locked' = [locked EXCEPT ![r] = {}]
    /\ resp' = [resp EXCEPT ![r] =
                   IF ScalarOneOrNone(locked[r]) = {}
                   THEN Reply(404, "Cannot remove provided set.", 0, <<>>)
                   ELSE Reply(200, "Deleted", req[r].args.set_number, <<>>)]
    /\ pc' = [pc EXCEPT ![r] = "done"]
    /\ UNCHANGED <<jwtSecret, authServer, foreignKey, nextId, req, pending, before>>

\* delete_all_sets, the DELETE ... WHERE user_id = u.
DeleteAllExecute(r) ==
    /\ pc[r] = "session"
    /\ req[r].op = "delete_all_sets"
    /\ LET hit == RowsOf(table, req[r].user_id) IN
       /\ hit \cap HeldByOthers(r) = {}
       /\ locked' = [locked EXCEPT ![r] = hit]
    /\ pc' = [pc EXCEPT ![r] = "executed"]
    /\ UNCHANGED <<jwtSecret, authServer, foreignKey, table, nextId, req, pending, resp, before>>

\* delete_all_sets, session.commit() and the answer.
DeleteAllCommit(r) ==
    /\ pc[r] = "executed"
    /\ req[r].op = "delete_all_sets"
    /\ table' = table \ locked[r]
    /\ locked' = [locked EXCEPT ![r] = {}]
    /\ resp' = [resp EXCEPT ![r] = Reply(200, "Deleted all sets", 0, <<>>)]
    /\ pc' = [pc EXCEPT ![r] = "done"]
    /\ UNCHANGED <<jwtSecret, authServer, foreignKey, nextId, req, pending, before>>

\* The steps of the handler running on slot r.
Handler(r) ==
    \/ ListSets(r)
    \/ AddFlush(r)
    \/ AddCommit(r)
    \/ RemoveExecute(r)
    \/ RemoveCommit(r)
    \/ DeleteAllExecute(r)
    \/ DeleteAllCommit(r)

\* The answers of the provider that matter to the resolution of a token:
\* the provider is only called on the fallback path, with the auth server
\* configured.
ProviderCalled(token) ==
    token.form # "none" /\ ~LocalPathDecides(token) /\ authServer
ProviderAnswers(token) ==
    IF ProviderCalled(token) THEN ProviderResponses(token) ELSE {NoResponse}

\* add_set requests accepted and not yet flushed: each may take an id.
AddsWaiting == {q \in Slots : pc[q] = "session" /\ req[q].op = "add_set"}

\* A request with a credential of `tokens` and query parameters over `keys`
\* and `names` arrives on slot r.  The id column stays within MaxId: no
\* add_set arrives that could take an id beyond it.
Arrival(r, tokens, keys, names) ==
    \E op \in Ops, token \in tokens :
        /\ op = "add_set" => nextId + Cardinality(AddsWaiting) <= MaxId
        /\ \E prov \in ProviderAnswers(token), args \in ArgsOf(op) :
            \E bearer \in IF token.form = "none" THEN NotAuthenticatedStatus ELSE {403} :
                /\ args.set_number \in keys \cup {0}
                /\ args.set_name \in names \cup {""}
                /\ Request(r, op, token, prov, bearer, args)

\* Credentials of the two accounts.
AccountTokens == {[form |-> "hs256", sub |-> "ua"], [form |-> "hs256", sub |-> "ub"]}

\* One client after the other, each with the credential of its account: a
\* request is answered before the next one arrives (one slot is in use).
Next ==
    \/ Arrival(1, AccountTokens, Keys, Names) /\ before' = table
    \/ Handler(1)

Spec == Init /\ [][Next]_vars

\* The deployed service: the secret is set and the database has the foreign
\* key on user_id.
InitLive ==
    /\ \E server \in BOOLEAN : Start(TRUE, server)
    /\ foreignKey = TRUE

SpecLive == InitLive /\ [][Next]_vars

\* One client after the other, with every kind of credential and under
\* every configuration.
NextAuth ==
    \/ Arrival(1, Tokens, {1}, {"First"}) /\ before' = table
    \/ Handler(1)

SpecAuth == InitAuth /\ [][NextAuth]_vars

\* Clients of the two accounts at once: the steps of their requests
\* interleave in every order.
NextConcurrent ==
    \E r \in Slots :
        \/ Arrival(r, AccountTokens, Keys, {"First"}) /\ UNCHANGED before
        \/ Handler(r)

SpecConcurrent == Init /\ [][NextConcurrent]_vars

\* Two clients of one account add the same set_number at the same time:
\* each of the two requests arrives while the table has no such row.
Racers == {1, 2}
RaceArrival(r) ==
    /\ pc[r] = "idle"
    /\ \E token \in AccountTokens, k \in Keys, n \in Names :
        /\ \A q \in Racers \ {r} :
              pc[q] # "idle" =>
                  /\ req[q].user_id \in ParseUUID(token.sub)
                  /\ req[q].args.set_number = k
        /\ Matching(table, CHOOSE u \in ParseUUID(token.sub) : TRUE, k) = {}
        /\ Request(r, "add_set", token, NoResponse, 403, [set_number |-> k, set_name |-> n])
    /\ UNCHANGED before

NextRace ==
    \E r \in Racers :
        \/ RaceArrival(r)
        \/ AddFlush(r)
        \/ AddCommit(r)

SpecRace == Init /\ [][NextRace]_vars

\* ================================================================ claims

\* Rows of t that share (user_id, set_number) with another row of t.
Duplicates(t) ==
    {x \in t : \E y \in t \ {x} :
        x.user_id = y.user_id /\ x.set_number = y.set_number}

\* C1: in every reachable state, whatever add, remove and removeAll
\* requests of whichever users have run and however their steps interleave,
\* no two rows of the table have the same (user_id, set_number).
C1_UniqueOwnerKey == Duplicates(table) = {}

\* C1 witness: both accounts hold a row with the same set_number, one
\* add_set was refused and a delete has been answered.
C1_Witness ==
    /\ \E x, y \in table : x.user_id # y.user_id /\ x.set_number = y.set_number
    /\ \E r \in Slots : pc[r] = "done" /\ req[r].op = "add_set" /\ resp[r].status = 409
    /\ \E r \in Slots : pc[r] = "done" /\ req[r].op = "remove_set" /\ resp[r].status = 200

\* C2: two add_set requests for one (user_id, set_number), each arriving
\* while no such row exists: once both are answered, one got 200 and the
\* other 409, and the table has exactly one row for the pair.
C2_OneWinsOneConflicts ==
    (\A r \in Racers : pc[r] = "done") =>
        /\ {resp[r].status : r \in Racers} = {200, 409}
        /\ \A r \in Racers :
              Cardinality(Matching(table, req[r].user_id, req[r].args.set_number)) = 1

\* C2 witness: both racers are answered and the one that arrived on the
\* first slot is the one refused; the row carries the other's name.
C2_Witness ==
    /\ \A r \in Racers : pc[r] = "done"
    /\ resp[1].status = 409
    /\ resp[2].status = 200
    /\ req[1].args.set_name # req[2].args.set_name
    /\ \E x \in table : x.name = req[2].args.set_name

\* ---------------------------------------------------- one request at a time
\* The rows of t with owner u and set_number k, and the rows of owner u.
Owned(t, u, k) == {x \in t : x.user_id = u /\ x.set_number = k}
OwnedBy(t, u) == {x \in t : x.user_id = u}

\* The step that answers the request of slot r, an `op` its handler served.
Answers(r, op) ==
    /\ pc[r] \in {"session", "flushed", "executed"}
    /\ pc'[r] = "done"
    /\ req[r].op = op

\* The request of slot r is answered, it was an `op`, with status s.
Answered(r, op, s) == pc[r] = "done" /\ req[r].op = op /\ resp[r].status = s

\* C3: add_set(user, key, name) arriving when a row (user, key) exists is
\* answered 409 and the table is what it was: one row (user, key), with the
\* name of the first insert.
C3_DuplicateRefused ==
    [][\A r \in Slots :
         (Answers(r, "add_set") /\ Owned(before, req[r].user_id, req[r].args.set_number) # {})
         => /\ resp'[r].status = 409
            /\ table' = before
            /\ Cardinality(Owned(table', req[r].user_id, req[r].args.set_number)) = 1]_vars

\* C3 witness: a refused add_set whose name differs from the name of the row
\* in the table.
C3_Witness ==
    \E r \in Slots :
        /\ Answered(r, "add_set", 409)
        /\ \E x \in Owned(table, req[r].user_id, req[r].args.set_number) :
              x.name # req[r].args.set_name

\* C4: add_set(U1, K, name) is refused exactly when U1 itself holds K,
\* whatever rows another user holds, and it leaves what list_sets returns to
\* every other user as it was.
C4_IsolatedAdd ==
    [][\A r \in Slots :
         Answers(r, "add_set")
         => /\ resp'[r].status =
                  IF Owned(before, req[r].user_id, req[r].args.set_number) # {}
                  THEN 409 ELSE 200
            /\ \A u2 \in UUIDs \ {req[r].user_id} :
                  /\ OwnedBy(table', u2) = OwnedBy(before, u2)
                  /\ ListRows(table', u2) = ListRows(before, u2)]_vars

\* C4 witness: an add_set answered 200 for a set_number another user held
\* before it.
C4_Witness ==
    \E r \in Slots :
        /\ Answered(r, "add_set", 200)
        /\ \E x \in before :
              x.user_id # req[r].user_id /\ x.set_number = req[r].args.set_number

\* C5: remove_set(user, key) arriving when the row (user, key) exists is
\* answered 200 and the table is the table before without that one row.
C5_RemoveExactlyOne ==
    [][\A r \in Slots :
         (Answers(r, "remove_set") /\ Owned(before, req[r].user_id, req[r].args.set_number) # {})
         => /\ resp'[r].status = 200
            /\ resp'[r].set_number = req[r].args.set_number
            /\ Cardinality(before \ table') = 1
            /\ table' = before \ Owned(before, req[r].user_id, req[r].args.set_number)]_vars

\* C5 witness: a remove_set answered 200 while another user's row with the
\* same set_number is still in the table.
C5_Witness ==
    \E r \in Slots :
        /\ Answered(r, "remove_set", 200)
        /\ \E x \in table :
              x.user_id # req[r].user_id /\ x.set_number = req[r].args.set_number

\* C6: remove_set(user, key) arriving when no row (user, key) exists is
\* answered 404 and the table is what it was.
C6_RemoveMissing ==
    [][\A r \in Slots :
         (Answers(r, "remove_set") /\ Owned(before, req[r].user_id, req[r].args.set_number) = {})
         => /\ resp'[r].status = 404
            /\ table' = before]_vars

\* C6 witness: a remove_set answered 404 while another user owns a row with
\* that set_number.
C6_Witness ==
    \E r \in Slots :
        /\ Answered(r, "remove_set", 404)
        /\ \E x \in table :
              x.user_id # req[r].user_id /\ x.set_number = req[r].args.set_number

\* C7: delete_all_sets(user) is answered 200, also when the user owns no
\* row; afterwards the user owns no row and the rows of the others are those
\* of before.
C7_RemoveAll ==
    [][\A r \in Slots :
         Answers(r, "delete_all_sets")
         => /\ resp'[r].status = 200
            /\ OwnedBy(table', req[r].user_id) = {}
            /\ table' = {x \in before : x.user_id # req[r].user_id}]_vars

\* C7 witness: a delete_all_sets answered 200 that removed two rows of the
\* user and left a row of another user.
C7_Witness ==
    \E r \in Slots :
        /\ Answered(r, "delete_all_sets", 200)
        /\ Cardinality(OwnedBy(before, req[r].user_id)) = 2
        /\ table # {}

\* C7 second witness: a delete_all_sets answered 200 for a user without rows.
C7_WitnessEmpty ==
    \E r \in Slots :
        /\ Answered(r, "delete_all_sets", 200)
        /\ OwnedBy(before, req[r].user_id) = {}
        /\ before # {}

\* C8: list_sets(user) is answered 200 with exactly the rows of the user,
\* each once, in strictly ascending set_number order.
C8_ListSorted ==
    [][\A r \in Slots :
         Answers(r, "list_sets")
         => LET sets == resp'[r].sets
                mine == OwnedBy(before, req[r].user_id)
            IN /\ resp'[r].status = 200
               /\ Len(sets) = Cardinality(mine)
               /\ {sets[i] : i \in 1..Len(sets)} =
                     {[set_number |-> x.set_number, name |-> x.name] : x \in mine}
               /\ \A i, j \in 1..Len(sets) :
                     i < j => sets[i].set_number < sets[j].set_number]_vars

\* C8 witness: a list of two rows of which the one with the larger
\* set_number was inserted first.
C8_Witness ==
    \E r \in Slots :
        /\ Answered(r, "list_sets", 200)
        /\ Len(resp[r].sets) = 2
        /\ \E x, y \in OwnedBy(table, req[r].user_id) :
              x.id < y.id /\ x.set_number > y.set_number

\* ------------------------------------------------------------ credentials
\* The provider was asked and refused the credential (401 or 403).
ProviderRefused(r) ==
    req[r].prov.kind = "http_error" /\ req[r].prov.code \in {401, 403}

\* C9 as stated: a request without credential, or with an expired, garbled
\* or unknown-key credential, is answered 401 or 403 and touches no row.
C9_Original ==
    \A r \in Slots :
        req[r].token.form \in BadForms =>
            /\ pc[r] \in {"idle", "done"}
            /\ pc[r] = "done" => resp[r].status \in {401, 403} /\ table = before

\* C9 amended: such a request never reaches a handler and touches no row;
\* it is answered 401 or 403 when it has no credential or the provider
\* refuses the credential, 500 when the auth server is not configured, and
\* 503 when the provider cannot be reached or fails.
C9_RejectedBeforeStore ==
    \A r \in Slots :
        req[r].token.form \in BadForms =>
            /\ pc[r] \in {"idle", "done"}
            /\ req[r].user_id = MISSING
            /\ pending[r] = {} /\ locked[r] = {}
            /\ pc[r] = "done" =>
                  /\ table = before
                  /\ resp[r].status \in {401, 403, 500, 503}
                  /\ resp[r].status \in {401, 403}
                        <=> (req[r].token.form = "none" \/ ProviderRefused(r))
                  /\ resp[r].status = 500 <=> (req[r].token.form # "none" /\ ~authServer)

\* C9 witness: with rows in the table, an add_set carrying a credential
\* signed with an unknown key is answered 401.
C9_Witness ==
    \E r \in Slots :
        /\ Answered(r, "add_set", 401)
        /\ req[r].token.form = "wrongkey"
        /\ table # {}

\* The subject of the credential of slot r verified locally and is no UUID.
LocalSubjectNoUuid(r) ==
    jwtSecret /\ req[r].token.form = "hs256" /\ req[r].token.sub = "not-a-uuid"

\* The provider answered the credential of slot r with an id that is no UUID.
ProviderIdNoUuid(r) ==
    req[r].prov.kind = "ok" /\ req[r].prov.id = "not-a-uuid"

\* C10 as stated: on either path, a user id that is present and is no UUID
\* makes the resolution fail with 401.
C10_Original ==
    \A r \in Slots :
        (pc[r] # "idle" /\ (LocalSubjectNoUuid(r) \/ ProviderIdNoUuid(r))) =>
            pc[r] = "done" /\ resp[r].status = 401

\* C10 amended: on either path such a user id resolves no user and the
\* request reaches no handler.  From the provider it is answered 503; in the
\* local subject it makes the resolver fall through to the auth server,
\* whose answer is the request's: 500 (not configured), 401 (the provider
\* refuses or names no user) or 503.
C10_NoUuidNotResolved ==
    \A r \in Slots :
        /\ (pc[r] # "idle" /\ ProviderIdNoUuid(r)) =>
              /\ pc[r] = "done"
              /\ req[r].user_id = MISSING
              /\ resp[r].status = 503
        /\ (pc[r] # "idle" /\ LocalSubjectNoUuid(r)) =>
              /\ pc[r] = "done"
              /\ req[r].user_id = MISSING
              /\ resp[r].status \in {401, 500, 503}
              /\ resp[r].status = 500 <=> ~authServer
              /\ resp[r].status = 401 <=>
                    (ProviderRefused(r) \/ (req[r].prov.kind = "ok" /\ Falsy(req[r].prov.id)))
              /\ authServer => req[r].prov # NoResponse

\* C10 witness: a locally verified subject that is no UUID, passed on to the
\* provider, which answers with an id that is no UUID: 503.
C10_Witness ==
    \E r \in Slots :
        /\ pc[r] = "done"
        /\ LocalSubjectNoUuid(r)
        /\ ProviderIdNoUuid(r)
        /\ resp[r].status = 503

\* The credential of slot r verifies against the configured secret and its
\* subject claim is absent or empty.
LocalSubjectMissing(r) ==
    jwtSecret /\ req[r].token.form = "hs256" /\ Falsy(req[r].token.sub)

\* C11: with the secret configured, a credential whose signature and
\* audience verify and whose subject is absent or empty is answered 401, and
\* the auth server is not asked about it, whether it is configured or not.
C11_MissingSubjectNoFallback ==
    \A r \in Slots :
        (pc[r] # "idle" /\ LocalSubjectMissing(r)) =>
            /\ pc[r] = "done"
            /\ resp[r].status = 401
            /\ ~req[r].fallback
            /\ req[r].prov = NoResponse
            /\ req[r].user_id = MISSING

\* C11 witness: with the auth server configured, a verified credential
\* without subject is answered 401.
C11_Witness ==
    \E r \in Slots :
        /\ pc[r] = "done"
        /\ authServer
        /\ LocalSubjectMissing(r)
        /\ req[r].token.sub = MISSING
        /\ resp[r].status = 401

\* C12: add_set answers 409 only when a row with the same (user_id,
\* set_number) exists; an add_set that fails on another constraint of the
\* table is rolled back and answered with a server error (500), never 409.
C12_ConflictOnlyForDuplicate ==
    \A r \in Slots :
        (pc[r] = "done" /\ req[r].op = "add_set") =>
            /\ resp[r].status = 409 =>
                  Owned(before, req[r].user_id, req[r].args.set_number) # {}
            /\ (ForeignKeyViolated(req[r].user_id)
                  /\ Owned(before, req[r].user_id, req[r].args.set_number) = {})
               => resp[r].status = 500 /\ table = before
====
